---- MODULE Spec2Model ----
(***************************************************************************)
(* statscollector: an HTTP service that counts views and clicks of URLs    *)
(* per referer in a persistent counter store and reports them with a CTR.  *)
(*                                                                         *)
(* The handlers View, Click and Stat and the shutdown sequence of main are *)
(* translated from src/main.go.  The counter store behind sp.Counter,      *)
(* sp.Get, sp.Keys and sp.CloseAll is an imported package whose source is  *)
(* not part of src/; it is modelled from section 4.1 of the specification  *)
(* (atomic increment under a lock, durable on return, sorted listing,      *)
(* close that must not overlap an increment).                              *)
(*                                                                         *)
(* Strings are sequences of bytes, so that concatenation, validation and   *)
(* byte-wise ordering are computed and not assumed.                        *)
(***************************************************************************)
EXTENDS Integers, Sequences, FiniteSets, TLC

VARIABLES
    disk,      \* persistent counters: namespace -> key -> value, 0 = absent
    mem,       \* open tables of the store: namespace -> key -> value
    mainpc,    \* position of main: serving, draining, closing, or how it ended
    pc,        \* position of each request worker
    hit,       \* the request a worker is serving (route, Hit)
    i,         \* loop index of a worker (over h.Urls or over keys)
    ret,       \* outcome of the sp.Counter call a worker is inside of
    keys,      \* Stat: the key list returned by sp.Keys
    v,         \* Stat: the view count read for the current key
    resp,      \* Stat: the entries appended so far
    out,       \* the last response the server sent
    okRet,     \* history: sp.Counter calls that returned nil error, per pair
    issued,    \* history: sp.Counter calls entered, per pair
    lost,      \* history: failed increments inside a worker's request
    tried,     \* history: the keys a worker's request called sp.Counter for
    unreported, \* history: failed increments inside the request out answers
    hazard,    \* history: some CloseAll ran while a Counter was in flight
    faults,    \* injected storage failures so far
    reqs,      \* requests accepted so far
    restarts,  \* process starts after the first
    script     \* scripted requests still to be issued (end-to-end scenario)

vars == <<disk, mem, mainpc, pc, hit, i, ret, keys, v, resp, out, okRet,
          issued, lost, tried, unreported, hazard, faults, reqs,
          restarts, script>>

hvars == <<pc, hit, i, ret, keys, v, resp, out, lost, tried, unreported>>

-----------------------------------------------------------------------------
(* Bounds *)

MaxProcs == 2
MaxReqs == 2
MaxUrls == 1
MaxFaults == 1
MaxRestarts == 1
MaxCount == 3
MaxFan == 2

Procs == 1..MaxProcs

-----------------------------------------------------------------------------
(* Strings as bytes *)

RefA == <<65>>
RefB == <<66>>
RefBad == <<45>>
hotpop == <<104, 111, 116, 112, 111, 112>>

url1 == <<117, 114, 108, 49>>
url2 == <<117, 114, 108, 50>>

Urls == {url1, url2}

ViewPrefix == <<99, 111, 117, 110, 116, 101, 114, 115, 47, 118, 105, 101, 119>>
ClickPrefix == <<99, 111, 117, 110, 116, 101, 114, 115, 47, 99, 108, 105, 99, 107>>

PrefixShared(metric) == ViewPrefix

Prefix(metric) == IF metric = "view" THEN ViewPrefix ELSE ClickPrefix

NSWithoutReferer(metric, referer) == Prefix(metric)

NS(metric, referer) == Prefix(metric) \o referer

Metrics == {"view", "click"}

StatReferers == {RefA, RefB}
RegReferers == {RefA, RefB, RefBad}

Namespaces == {NS(m, r) : m \in Metrics, r \in RegReferers \cup {hotpop}}

-----------------------------------------------------------------------------
(* Request binding: Hit and its validation tags *)

MinReferer == 1
MaxReferer == 250

IsAlnumByte(b) ==
    \/ (b >= 48 /\ b <= 57)
    \/ (b >= 65 /\ b <= 90)
    \/ (b >= 97 /\ b <= 122)

ValidReferer(r) ==
    /\ Len(r) >= MinReferer
    /\ Len(r) <= MaxReferer
    /\ \A j \in 1..Len(r) : IsAlnumByte(r[j])

RECURSIVE SeqsUpTo(_, _)
SeqsUpTo(S, n) ==
    IF n = 0 THEN {<<>>}
    ELSE LET shorter == SeqsUpTo(S, n - 1)
         IN  shorter \cup {Append(s, x) : s \in shorter, x \in S}

UrlLists ==
    {[isNil |-> TRUE, elems |-> <<>>]}
        \cup {[isNil |-> FALSE, elems |-> s] : s \in SeqsUpTo(Urls, MaxUrls)}

Hit(route, referer, urls) == [route |-> route, referer |-> referer, urls |-> urls]

NoHit == Hit("none", <<>>, [isNil |-> TRUE, elems |-> <<>>])

ShouldBindAny(h) == TRUE

ShouldBind(h) == ValidReferer(h.referer)

StatusOK == 200
StatusUnprocessableEntity == 422

NoResponse == [status |-> 0, route |-> "none", referer |-> <<>>, body |-> <<>>]

\* A response, kept with the route and referer of the request it answers.
Response(status, h, body) ==
    [status |-> status, route |-> h.route, referer |-> h.referer, body |-> body]

-----------------------------------------------------------------------------
(* Byte-wise order and the big-endian counter encoding *)

RECURSIVE LexLess(_, _)
LexLess(a, b) ==
    IF b = <<>> THEN FALSE
    ELSE IF a = <<>> THEN TRUE
    ELSE IF a[1] # b[1] THEN a[1] < b[1]
    ELSE LexLess(Tail(a), Tail(b))

RECURSIVE SortAsc(_)
SortAsc(S) ==
    IF S = {} THEN <<>>
    ELSE LET m == CHOOSE x \in S : \A y \in S \ {x} : LexLess(x, y)
         IN  <<m>> \o SortAsc(S \ {m})

RECURSIVE ByteAt(_, _)
ByteAt(n, pos) == IF pos = 0 THEN n % 256 ELSE ByteAt(n \div 256, pos - 1)

PutUint64(n) == [j \in 1..8 |-> ByteAt(n, 8 - j)]

RECURSIVE Uint64From(_, _)
Uint64From(b, n) ==
    IF n = 0 THEN 0 ELSE Uint64From(b, n - 1) * 256 + b[n]

Uint32(b) == Uint64From(b, 4)

Uint64(b) == Uint64From(b, 8)

-----------------------------------------------------------------------------
(* The counter store *)

EmptyTable == [k \in Urls |-> 0]

Opened == DOMAIN mem

Table(ns) == IF ns \in Opened THEN mem[ns] ELSE disk[ns]

Value(ns, k) == Table(ns)[k]

KeySet(ns) == {k \in Urls : Value(ns, k) > 0}

Open(m, ns) == IF ns \in DOMAIN m THEN m ELSE (ns :> disk[ns]) @@ m

CanFail == faults < MaxFaults

GetRes(ns, k, fail) ==
    IF fail THEN [err |-> "io", val |-> <<>>]
    ELSE IF Value(ns, k) = 0 THEN [err |-> "notfound", val |-> <<>>]
    ELSE [err |-> "nil", val |-> PutUint64(Value(ns, k))]

KeysRes(ns, fail) ==
    IF fail THEN [err |-> "io", keys |-> <<>>]
    ELSE [err |-> "nil", keys |-> SortAsc(KeySet(ns))]

CounterValueSet(old) == 1

CounterValue(old) == old + 1

PersistLater(d, ns, k, val) == d

Persist(d, ns, k, val) == [d EXCEPT ![ns][k] = val]

Flush(d, m) == [ns \in DOMAIN d |-> IF ns \in DOMAIN m THEN m[ns] ELSE d[ns]]

\* Outcomes of the read-modify-write of an increment.  An increment whose
\* table was closed by a concurrent CloseAll after the call started is the
\* case the store leaves undefined: it may apply or fail.
CommitOutcomes(state) ==
    {"nil"} \cup (IF state = "closed" \/ CanFail THEN {"err"} ELSE {})

InFlight(h) == pc[h] \in {"counter", "committed"}

-----------------------------------------------------------------------------
(* Initial states *)

NoScript == [view |-> 0, click |-> 0, stat |-> 0]

ZeroCounts == [ns \in Namespaces |-> EmptyTable]

InitWorkers ==
    /\ pc = [h \in Procs |-> "idle"]
    /\ hit = [h \in Procs |-> NoHit]
    /\ i = [h \in Procs |-> 0]
    /\ ret = [h \in Procs |-> "none"]
    /\ keys = [h \in Procs |-> <<>>]
    /\ v = [h \in Procs |-> 0]
    /\ resp = [h \in Procs |-> <<>>]
    /\ out = NoResponse
    /\ lost = [h \in Procs |-> 0]
    /\ tried = [h \in Procs |-> <<>>]
    /\ unreported = 0

Init ==
    /\ disk = ZeroCounts
    /\ script = NoScript
    /\ mem = <<>>
    /\ mainpc = "serving"
    /\ InitWorkers
    /\ okRet = ZeroCounts
    /\ issued = ZeroCounts
    /\ hazard = FALSE
    /\ faults = 0
    /\ reqs = 0
    /\ restarts = 0

-----------------------------------------------------------------------------
(* Request dispatch (InitRouter) *)

RegRequests ==
    {Hit(route, r, u) : route \in {"view", "click"}, r \in RegReferers, u \in UrlLists}

StatRequests ==
    {Hit("stat", r, [isNil |-> TRUE, elems |-> <<>>]) : r \in StatReferers}

\* Each request runs on a worker of its own; which idle worker takes it
\* makes no difference, so the lowest one does.
Free(h) == pc[h] = "idle" /\ \A g \in Procs : g < h => pc[g] # "idle"

Dispatch(h, req) ==
    /\ pc' = [pc EXCEPT ![h] = IF req.route = "stat" THEN "keys" ELSE "bind"]
    /\ hit' = [hit EXCEPT ![h] = req]
    /\ UNCHANGED <<i, ret, keys, v, resp, out, lost, tried, unreported>>

Accept(h, requests) ==
    /\ mainpc = "serving"
    /\ Free(h)
    /\ script = NoScript
    /\ reqs < MaxReqs
    /\ \E req \in requests : Dispatch(h, req)
    /\ reqs' = reqs + 1
    /\ UNCHANGED <<disk, mem, mainpc, okRet, issued, hazard, faults,
                   restarts, script>>

Receive(h) == Accept(h, RegRequests)

ReceiveStat(h) == Accept(h, StatRequests)

\* resp is made anew by every Stat call.
KeptResp(old) == old

FreshResp(old) == <<>>

\* Leaving a handler: the response is written and the locals are dropped.
Finish(h, response) ==
    /\ pc' = [pc EXCEPT ![h] = "idle"]
    /\ out' = response
    /\ unreported' = lost[h]
    /\ lost' = [lost EXCEPT ![h] = 0]
    /\ tried' = [tried EXCEPT ![h] = <<>>]
    /\ hit' = [hit EXCEPT ![h] = NoHit]
    /\ i' = [i EXCEPT ![h] = 0]
    /\ keys' = [keys EXCEPT ![h] = <<>>]
    /\ v' = [v EXCEPT ![h] = 0]
    /\ resp' = [resp EXCEPT ![h] = FreshResp(@)]
    /\ UNCHANGED ret

-----------------------------------------------------------------------------
(* View and Click *)

CounterNSOfView(h) == NS("view", hit[h].referer)

CounterNS(h) == NS(hit[h].route, hit[h].referer)

\* The range loop over h.Urls goes on whatever sp.Counter returned.
StopOnError(failed, idx, n) == idx <= n /\ failed = 0

KeepGoing(failed, idx, n) == idx <= n

CounterKey(h) == hit[h].urls.elems[i[h]]

Bind(h) ==
    /\ pc[h] = "bind"
    /\ IF ~ShouldBind(hit[h])
       THEN Finish(h, Response(StatusUnprocessableEntity, hit[h], <<>>))
       ELSE IF hit[h].urls.isNil
       THEN Finish(h, Response(StatusUnprocessableEntity, hit[h], <<>>))
       ELSE /\ pc' = [pc EXCEPT ![h] = "loop"]
            /\ i' = [i EXCEPT ![h] = 1]
            /\ UNCHANGED <<hit, ret, keys, v, resp, out, lost, tried, unreported>>
    /\ UNCHANGED <<disk, mem, mainpc, okRet, issued, hazard, faults,
                   reqs, restarts, script>>

\* sp.Counter is entered: the table of the namespace is opened if it is not.
CounterStart(h) ==
    /\ pc[h] = "loop"
    /\ KeepGoing(lost[h], i[h], Len(hit[h].urls.elems))
    /\ pc' = [pc EXCEPT ![h] = "counter"]
    /\ ret' = [ret EXCEPT ![h] = "open"]
    /\ mem' = Open(mem, CounterNS(h))
    /\ issued' = [issued EXCEPT ![CounterNS(h)][CounterKey(h)] = @ + 1]
    /\ tried' = [tried EXCEPT ![h] = Append(@, CounterKey(h))]
    /\ UNCHANGED <<disk, mainpc, hit, i, keys, v, resp, out, okRet, lost,
                   unreported, hazard, faults, reqs, restarts, script>>

CounterCommit(h) ==
    /\ pc[h] = "counter"
    /\ LET ns == CounterNS(h)
           k == CounterKey(h)
           val == CounterValue(Value(ns, k))
       IN  \E res \in CommitOutcomes(ret[h]) :
             /\ ret' = [ret EXCEPT ![h] = res]
             /\ IF res = "nil"
                THEN /\ disk' = Persist(disk, ns, k, val)
                     /\ mem' = [Open(mem, ns) EXCEPT ![ns][k] = val]
                     /\ UNCHANGED faults
                ELSE /\ UNCHANGED <<disk, mem>>
                     /\ faults' = IF ret[h] = "open" THEN faults + 1 ELSE faults
    /\ pc' = [pc EXCEPT ![h] = "committed"]
    /\ UNCHANGED <<mainpc, hit, i, keys, v, resp, out, okRet, issued, lost, tried,
                   unreported, hazard, reqs, restarts, script>>

\* sp.Counter returns; the handler discards both results.
CounterReturn(h) ==
    /\ pc[h] = "committed"
    /\ okRet' = IF ret[h] = "nil"
                THEN [okRet EXCEPT ![CounterNS(h)][CounterKey(h)] = @ + 1]
                ELSE okRet
    /\ lost' = [lost EXCEPT ![h] = IF ret[h] = "nil" THEN @ ELSE @ + 1]
    /\ UNCHANGED <<issued, tried>>
    /\ ret' = [ret EXCEPT ![h] = "none"]
    /\ pc' = [pc EXCEPT ![h] = "closeall"]
    /\ UNCHANGED <<disk, mem, mainpc, hit, i, keys, v, resp, out, unreported,
                   hazard, faults, reqs, restarts, script>>

\* sp.CloseAll: every open table is flushed and closed.  A worker that is
\* inside sp.Counter and has not written yet is left with a closed table.
Closed(r) == [h \in Procs |-> IF pc[h] = "counter" THEN "closed" ELSE r[h]]

CloseAll ==
    /\ disk' = Flush(disk, mem)
    /\ mem' = <<>>
    /\ hazard' = (hazard \/ \E h \in Procs : InFlight(h))

HandlerCloseAll(h) ==
    /\ pc[h] = "closeall"
    /\ CloseAll
    /\ ret' = Closed(ret)
    /\ i' = [i EXCEPT ![h] = @ + 1]
    /\ pc' = [pc EXCEPT ![h] = "loop"]
    /\ UNCHANGED <<mainpc, hit, keys, v, resp, out, okRet, issued, lost, tried,
                   unreported, faults, reqs, restarts, script>>

RegRespond(h) ==
    /\ pc[h] = "loop"
    /\ ~KeepGoing(lost[h], i[h], Len(hit[h].urls.elems))
    /\ Finish(h, Response(StatusOK, hit[h], <<>>))
    /\ UNCHANGED <<disk, mem, mainpc, okRet, issued, hazard, faults,
                   reqs, restarts, script>>

-----------------------------------------------------------------------------
(* Stat *)

RECURSIVE GCD(_, _)
GCD(a, b) == IF b = 0 THEN a ELSE GCD(b, a % b)

\* A float64 quotient of two small counters, kept as the reduced fraction.
Quotient(n, d) == [num |-> n \div GCD(n, d), den |-> d \div GCD(n, d)]

Zero == [num |-> 0, den |-> 1]

CTRInverted(views, clicks) == IF clicks > 0 THEN Quotient(clicks, views) ELSE Zero

CTR(views, clicks) == IF clicks > 0 THEN Quotient(views, clicks) ELSE Zero

StatResp(url, views, clicks) ==
    [Url |-> url, View |-> views, Click |-> clicks, CTR |-> CTR(views, clicks)]

FaultChoices == IF CanFail THEN {FALSE, TRUE} ELSE {FALSE}

Spend(fail) == faults' = IF fail THEN faults + 1 ELSE faults

KeysRejectedOrEmpty(res) == res.err # "nil" \/ res.keys = <<>>

KeysNeverRejected(res) == FALSE

KeysRejected(res) == res.err # "nil"

ViewFetched(res) == res.err = "nil"

ClickCount(res) == IF res.err = "nil" THEN Uint64(res.val) ELSE 0

AppendIfClicked(list, cres, entry) ==
    IF cres.err = "nil" THEN Append(list, entry) ELSE list

PrependEntry(list, cres, entry) == <<entry>> \o list

AppendEntry(list, cres, entry) == Append(list, entry)

StatViewNS(referer) == NS("view", referer)

StatClickNS(referer) == NS("click", referer)

StatKeys(h) ==
    /\ pc[h] = "keys"
    /\ \E fail \in FaultChoices :
         LET ns == StatViewNS(hit[h].referer)
             res == KeysRes(ns, fail)
         IN  /\ Spend(fail)
             /\ IF KeysRejected(res)
                THEN Finish(h, Response(StatusUnprocessableEntity, hit[h], <<>>))
                ELSE /\ keys' = [keys EXCEPT ![h] = res.keys]
                     /\ i' = [i EXCEPT ![h] = 1]
                     /\ pc' = [pc EXCEPT ![h] = "getview"]
                     /\ UNCHANGED <<hit, ret, v, resp, out, lost, tried, unreported>>
    /\ UNCHANGED <<disk, mem, mainpc, okRet, issued, hazard, reqs,
                   restarts, script>>

StatGetView(h) ==
    /\ pc[h] = "getview"
    /\ i[h] <= Len(keys[h])
    /\ \E fail \in FaultChoices :
         LET ns == StatViewNS(hit[h].referer)
             res == GetRes(ns, keys[h][i[h]], fail)
         IN  /\ Spend(fail)
             /\ IF ViewFetched(res)
                THEN /\ v' = [v EXCEPT ![h] = Uint64(res.val)]
                     /\ pc' = [pc EXCEPT ![h] = "getclick"]
                     /\ UNCHANGED i
                ELSE /\ i' = [i EXCEPT ![h] = @ + 1]
                     /\ UNCHANGED <<v, pc>>
    /\ UNCHANGED <<disk, mem, mainpc, hit, ret, keys, resp, out, okRet,
                   issued, lost, tried, unreported, hazard, reqs, restarts,
                   script>>

StatGetClick(h) ==
    /\ pc[h] = "getclick"
    /\ \E fail \in FaultChoices :
         LET ns == StatClickNS(hit[h].referer)
             key == keys[h][i[h]]
             res == GetRes(ns, key, fail)
         IN  /\ Spend(fail)
             /\ resp' = [resp EXCEPT ![h] =
                           AppendEntry(@, res, StatResp(key, v[h], ClickCount(res)))]
    /\ i' = [i EXCEPT ![h] = @ + 1]
    /\ pc' = [pc EXCEPT ![h] = "getview"]
    /\ UNCHANGED <<disk, mem, mainpc, hit, ret, keys, v, out, okRet, issued,
                   lost, tried, unreported, hazard, reqs, restarts, script>>

StatRespond(h) ==
    /\ pc[h] = "getview"
    /\ i[h] > Len(keys[h])
    /\ Finish(h, Response(StatusOK, hit[h], resp[h]))
    /\ UNCHANGED <<disk, mem, mainpc, okRet, issued, hazard, faults,
                   reqs, restarts, script>>

-----------------------------------------------------------------------------
(* main: serve, shut down on the interrupt signal, close the store *)

AllIdle == \A h \in Procs : pc[h] = "idle"

\* The process ends: its workers and the open tables are gone.
Stopped == {"exited", "fatal", "crashed"}

Exit(cause) ==
    /\ mainpc' = cause
    /\ mem' = <<>>
    /\ pc' = [h \in Procs |-> "idle"]
    /\ hit' = [h \in Procs |-> NoHit]
    /\ i' = [h \in Procs |-> 0]
    /\ ret' = [h \in Procs |-> "none"]
    /\ keys' = [h \in Procs |-> <<>>]
    /\ v' = [h \in Procs |-> 0]
    /\ resp' = [h \in Procs |-> <<>>]
    /\ lost' = [h \in Procs |-> 0]
    /\ tried' = [h \in Procs |-> <<>>]
    /\ UNCHANGED <<out, unreported>>

Signal ==
    /\ mainpc = "serving"
    /\ mainpc' = "draining"
    /\ UNCHANGED <<disk, mem, hvars, okRet, issued, hazard, faults,
                   reqs, restarts, script>>

ShutdownDrained ==
    /\ mainpc = "draining"
    /\ AllIdle
    /\ mainpc' = "closing"
    /\ UNCHANGED <<disk, mem, hvars, okRet, issued, hazard, faults,
                   reqs, restarts, script>>

ShutdownTimeout ==
    /\ mainpc = "draining"
    /\ ~AllIdle
    /\ Exit("fatal")
    /\ UNCHANGED <<disk, okRet, issued, hazard, faults, reqs,
                   restarts, script>>

MainCloseAll ==
    /\ mainpc = "closing"
    /\ CloseAll
    /\ mainpc' = "exited"
    /\ UNCHANGED <<hvars, okRet, issued, faults, reqs, restarts, script>>

Crash ==
    /\ mainpc \in {"serving", "draining", "closing"}
    /\ restarts < MaxRestarts
    /\ Exit("crashed")
    /\ UNCHANGED <<disk, okRet, issued, hazard, faults, reqs,
                   restarts, script>>

Start ==
    /\ mainpc \in Stopped
    /\ restarts < MaxRestarts
    /\ mainpc' = "serving"
    /\ restarts' = restarts + 1
    /\ UNCHANGED <<disk, mem, hvars, okRet, issued, hazard, faults, reqs,
                   script>>

-----------------------------------------------------------------------------
(* The service under concurrent requests, storage failures and restarts *)

Next ==
    \/ \E h \in Procs : Receive(h)
    \/ \E h \in Procs : ReceiveStat(h)
    \/ \E h \in Procs : Bind(h)
    \/ \E h \in Procs : CounterStart(h)
    \/ \E h \in Procs : CounterCommit(h)
    \/ \E h \in Procs : CounterReturn(h)
    \/ \E h \in Procs : HandlerCloseAll(h)
    \/ \E h \in Procs : RegRespond(h)
    \/ \E h \in Procs : StatKeys(h)
    \/ \E h \in Procs : StatGetView(h)
    \/ \E h \in Procs : StatGetClick(h)
    \/ \E h \in Procs : StatRespond(h)
    \/ Signal
    \/ ShutdownDrained
    \/ ShutdownTimeout
    \/ MainCloseAll
    \/ Crash
    \/ Start

Spec == Init /\ [][Next]_vars

-----------------------------------------------------------------------------
(* Registrations of one referer with several URLs in a list *)

FanRequests ==
    {Hit(route, RefA, [isNil |-> FALSE, elems |-> u]) :
        route \in {"view", "click"}, u \in SeqsUpTo(Urls, MaxFan)}

ReceiveFan(h) == Accept(h, FanRequests)

NextFan ==
    \/ \E h \in Procs : ReceiveFan(h)
    \/ \E h \in Procs : Bind(h)
    \/ \E h \in Procs : CounterStart(h)
    \/ \E h \in Procs : CounterCommit(h)
    \/ \E h \in Procs : CounterReturn(h)
    \/ \E h \in Procs : HandlerCloseAll(h)
    \/ \E h \in Procs : RegRespond(h)

SpecFan == Init /\ [][NextFan]_vars

-----------------------------------------------------------------------------
(* Reports over a store left by earlier runs of the process *)

StoredCounts ==
    {[ns \in Namespaces |->
        IF ns = NS("view", RefA) THEN views
        ELSE IF ns = NS("click", RefA) THEN clicks
        ELSE EmptyTable] :
     views \in [Urls -> 0..MaxCount], clicks \in [Urls -> 0..MaxCount]}

InitStat ==
    /\ disk \in StoredCounts
    /\ script = NoScript
    /\ mem = <<>>
    /\ mainpc = "serving"
    /\ InitWorkers
    /\ okRet = disk
    /\ issued = disk
    /\ hazard = FALSE
    /\ faults = 0
    /\ reqs = 0
    /\ restarts = 0

NextStat ==
    \/ \E h \in Procs : ReceiveStat(h)
    \/ \E h \in Procs : StatKeys(h)
    \/ \E h \in Procs : StatGetView(h)
    \/ \E h \in Procs : StatGetClick(h)
    \/ \E h \in Procs : StatRespond(h)

SpecStat == InitStat /\ [][NextStat]_vars

-----------------------------------------------------------------------------
(* The end-to-end scenario: two views of url1 and url2, one click of url1, *)
(* and reports, one request after the other in any order                   *)

E2EUrls(route) ==
    [isNil |-> FALSE, elems |-> IF route = "view" THEN <<url1, url2>> ELSE <<url1>>]

E2ERequest(route) ==
    IF route = "stat" THEN Hit("stat", hotpop, [isNil |-> TRUE, elems |-> <<>>])
    ELSE Hit(route, hotpop, E2EUrls(route))

E2EScript == [view |-> 2, click |-> 1, stat |-> 2]

ReceiveScripted(h) ==
    /\ mainpc = "serving"
    /\ AllIdle
    /\ Free(h)
    /\ \E route \in DOMAIN script :
         /\ script[route] > 0
         /\ Dispatch(h, E2ERequest(route))
         /\ script' = [script EXCEPT ![route] = @ - 1]
    /\ UNCHANGED <<disk, mem, mainpc, okRet, issued, hazard, faults, reqs,
                   restarts>>

InitE2E ==
    /\ disk = ZeroCounts
    /\ script = E2EScript
    /\ mem = <<>>
    /\ mainpc = "serving"
    /\ InitWorkers
    /\ okRet = ZeroCounts
    /\ issued = ZeroCounts
    /\ hazard = FALSE
    /\ faults = MaxFaults
    /\ reqs = 0
    /\ restarts = 0

NextE2E ==
    \/ \E h \in Procs : ReceiveScripted(h)
    \/ \E h \in Procs : Bind(h)
    \/ \E h \in Procs : CounterStart(h)
    \/ \E h \in Procs : CounterCommit(h)
    \/ \E h \in Procs : CounterReturn(h)
    \/ \E h \in Procs : HandlerCloseAll(h)
    \/ \E h \in Procs : RegRespond(h)
    \/ \E h \in Procs : StatKeys(h)
    \/ \E h \in Procs : StatGetView(h)
    \/ \E h \in Procs : StatGetClick(h)
    \/ \E h \in Procs : StatRespond(h)

SpecE2E == InitE2E /\ [][NextE2E]_vars

-----------------------------------------------------------------------------
(* Properties *)

Referers == StatReferers \cup {hotpop}

Pairs == Namespaces \X Urls

Entries(list) == {list[j] : j \in 1..Len(list)}

\* C1: after all concurrent registrations of a pair have returned, and no
\* storage failure was injected and the process never stopped, the value of
\* the pair is exactly the number of increments the handlers performed.
ExactCount ==
    (AllIdle /\ mainpc \notin Stopped /\ restarts = 0 /\ faults = 0)
        => \A p \in Pairs : Value(p[1], p[2]) = issued[p[1]][p[2]]

\* C2: every end of the process (close at shutdown, fatal exit, crash)
\* leaves each pair with the value Get returned before it, which is at
\* least the number of increments that returned success, and leaves the
\* key set of every namespace as it was.
Stops == mainpc \notin Stopped /\ mainpc' \in Stopped

DurableAcrossRestart ==
    [][Stops => \A ns \in Namespaces :
                  /\ KeySet(ns)' = KeySet(ns)
                  /\ \A k \in Urls :
                       /\ disk'[ns][k] = Value(ns, k)
                       /\ disk'[ns][k] >= okRet[ns][k]]_vars

ReadAfterRestart ==
    /\ restarts >= 1
    /\ \E h \in Procs :
         /\ pc[h] = "getclick"
         /\ v[h] >= 1
         /\ v[h] = okRet[NS("view", hit[h].referer)][keys[h][i[h]]]

\* C3: a Get of the Stat handler that returns a value returns at least the
\* number of increments of that pair that had returned success before it.
ReadAfterWrite ==
    [][\A h \in Procs :
         /\ (pc[h] = "getview" /\ pc'[h] = "getclick")
              => v'[h] >= okRet[NS("view", hit[h].referer)][keys[h][i[h]]]
         /\ (pc[h] = "getclick" /\ pc'[h] = "getview" /\ faults' = faults)
              => resp'[h][Len(resp'[h])].Click
                   >= okRet[NS("click", hit[h].referer)][keys[h][i[h]]]]_vars

ReadWhileWriting ==
    \E h \in Procs :
      /\ pc[h] = "getclick"
      /\ v[h] >= 1
      /\ okRet[NS("view", hit[h].referer)][keys[h][i[h]]] >= 1
      /\ \E g \in Procs : pc[g] \in {"counter", "committed", "closeall"}

\* C4: the key list Stat works on holds exactly the keys of the view
\* namespace with a counter, each once, in ascending byte-wise order; for a
\* namespace without keys the report is an empty list with status 200, and
\* 422 is answered only when the storage layer failed.
IsListing(list, ns) ==
    /\ Entries(list) = {k \in Urls : Value(ns, k) > 0}
    /\ \A j \in 1..Len(list) : \A l \in 1..Len(list) :
         j < l => LexLess(list[j], list[l])

ListKeysSorted ==
    /\ \A h \in Procs :
         pc[h] \in {"getview", "getclick"}
            => IsListing(keys[h], NS("view", hit[h].referer))
    /\ (out.route = "stat" /\ faults = 0)
         => /\ out.status = StatusOK
            /\ KeySet(NS("view", out.referer)) = {} => out.body = <<>>

ListedTwoAndNone ==
    /\ out.route = "stat"
    /\ out.referer = RefB
    /\ out.status = StatusOK
    /\ out.body = <<>>
    /\ \E h \in Procs : pc[h] = "getview" /\ keys[h] = <<url1, url2>>

\* C5: every report entry has ctr = views / clicks when clicks > 0 (3 views
\* and 2 clicks give 3/2) and ctr = 0 when clicks = 0; the denominator is
\* never 0.
CTRPolicyOf(e) ==
    /\ e.CTR.den > 0
    /\ e.Click > 0 => e.CTR.num * e.Click = e.View * e.CTR.den
    /\ e.Click = 0 => e.CTR = Zero
    /\ (e.View = 3 /\ e.Click = 2) => e.CTR = [num |-> 3, den |-> 2]

CTRPolicy ==
    /\ \A h \in Procs : \A e \in Entries(resp[h]) : CTRPolicyOf(e)
    /\ \A e \in Entries(out.body) : CTRPolicyOf(e)

CTRThreeHalves ==
    /\ out.route = "stat"
    /\ \E e \in Entries(out.body) : e.View = 3 /\ e.Click = 2
    /\ \E e \in Entries(out.body) : e.View > 0 /\ e.Click = 0

\* C6: once both view registrations and the click registration have been
\* answered, a report of hotpop is exactly url1 (2 views, 1 click, ctr 2)
\* followed by url2 (2 views, 0 clicks, ctr 0).
E2EDone == AllIdle /\ script.view = 0 /\ script.click = 0 /\ out.route = "stat"

E2EReport ==
    E2EDone =>
        /\ out.status = StatusOK
        /\ out.body = << [Url |-> url1, View |-> 2, Click |-> 1,
                          CTR |-> [num |-> 2, den |-> 1]],
                         [Url |-> url2, View |-> 2, Click |-> 0,
                          CTR |-> Zero] >>

E2EReported == E2EDone /\ Len(out.body) = 2 /\ script.stat = 0

\* C7: a step of a View or Click handler serving one referer changes no
\* counter and no key set of a namespace of another referer.
Isolation ==
    [][\A h \in Procs :
         (pc'[h] # pc[h] /\ hit[h].route \in {"view", "click"})
            => \A r \in Referers \ {hit[h].referer} : \A m \in Metrics :
                 /\ KeySet(NS(m, r))' = KeySet(NS(m, r))
                 /\ \A k \in Urls : Value(NS(m, r), k)' = Value(NS(m, r), k)]_vars

IncrementedBesideOther ==
    \E h \in Procs :
      /\ pc[h] = "committed"
      /\ ret[h] = "nil"
      /\ \E r \in Referers \ {hit[h].referer} :
           Value(NS(hit[h].route, r), CounterKey(h)) >= 1

\* C8: with no storage failure a report succeeds and holds, for every URL
\* with views and without a click counter, the entry with clicks = 0 and
\* ctr = 0.
AbsentKeyDefault ==
    (out.route = "stat" /\ faults = 0)
        => /\ out.status = StatusOK
           /\ \A k \in Urls :
                (Value(NS("view", out.referer), k) > 0
                   /\ Value(NS("click", out.referer), k) = 0)
                  => [Url |-> k, View |-> Value(NS("view", out.referer), k),
                      Click |-> 0, CTR |-> Zero] \in Entries(out.body)

ReportedWithoutClicks ==
    /\ out.route = "stat"
    /\ faults = 0
    /\ \E e \in Entries(out.body) :
         e.Click = 0 /\ e.View > 0 /\ Value(NS("click", out.referer), e.Url) = 0

\* C9: a registration is answered with success only if none of its
\* increments failed.
WriteFailureReported ==
    (out.status = StatusOK /\ out.route \in {"view", "click"}) => unreported = 0

\* C10: sp.CloseAll never starts while a worker is between the start and
\* the return of sp.Counter.
CloseNeverInFlight == ~hazard

\* C11: every step on which the process exits after the interrupt signal
\* (return from main or log.Fatal) is taken with no request in flight and
\* closes the store, flushing what the open tables hold.
ExitsAfterSignal ==
    mainpc \in {"draining", "closing"} /\ mainpc' \in {"exited", "fatal"}

ShutdownClosesStore ==
    [][ExitsAfterSignal => /\ mainpc = "closing"
                           /\ AllIdle
                           /\ disk' = Flush(disk, mem)
                           /\ mem' = <<>>]_vars

\* C12: a registration calls sp.Counter for its URLs one by one in list
\* order, a URL as often as it occurs; it answers only after it has called
\* sp.Counter for the whole list, whatever the calls returned; each call
\* that succeeds adds one to its pair, and no step lowers any value.
Answers(h) == pc[h] = "loop" /\ pc'[h] = "idle" /\ mainpc' = mainpc

FanOutNoRollback ==
    [][/\ \A h \in Procs :
            /\ (pc[h] = "loop" /\ pc'[h] = "counter")
                 => tried'[h] = SubSeq(hit[h].urls.elems, 1, i[h])
            /\ Answers(h) => tried[h] = hit[h].urls.elems
            /\ (pc[h] = "counter" /\ pc'[h] = "committed" /\ ret'[h] = "nil")
                 => Value(CounterNS(h), tried[h][i[h]])'
                      = Value(CounterNS(h), tried[h][i[h]]) + 1
       /\ \A p \in Pairs : Value(p[1], p[2])' >= Value(p[1], p[2])]_vars

WentOnAfterFailure ==
    \E h \in Procs :
      /\ pc[h] = "committed"
      /\ ret[h] = "nil"
      /\ i[h] = 2
      /\ lost[h] = 1
      /\ hit[h].urls.elems[1] = hit[h].urls.elems[2]

\* C13: a successful report holds entries only for URLs that are keys of
\* the view namespace of its referer, in ascending byte-wise order and
\* hence each URL once; a URL with clicks and no views is not in it.
ReportKeyUniverse ==
    (out.route = "stat" /\ out.status = StatusOK)
        => /\ \A e \in Entries(out.body) :
                e.Url \in KeySet(NS("view", out.referer))
           /\ \A j \in 1..Len(out.body) : \A l \in 1..Len(out.body) :
                j < l => LexLess(out.body[j].Url, out.body[l].Url)
           /\ \A k \in Urls :
                (Value(NS("click", out.referer), k) > 0
                   /\ Value(NS("view", out.referer), k) = 0)
                  => \A e \in Entries(out.body) : e.Url # k

ReportedWithoutClickOnly ==
    /\ out.route = "stat"
    /\ out.status = StatusOK
    /\ Len(out.body) = 1
    /\ \E k \in Urls :
         /\ Value(NS("click", out.referer), k) > 0
         /\ Value(NS("view", out.referer), k) = 0

\* C14: a failed fetch of a view counter leaves the report as it was and
\* the handler goes on with the next key; a failed fetch of a click counter
\* appends the entry with clicks = 0 and ctr = 0; a report is answered 422
\* exactly when the key enumeration failed, and a report answered 200 lacks
\* no more keys of the view namespace than fetches failed.
FailedIn(h, at) == pc[h] = at /\ faults' > faults /\ <<pc[h], i[h]>>' # <<pc[h], i[h]>>

PartialSteps ==
    \A h \in Procs :
      /\ FailedIn(h, "keys")
           => pc'[h] = "idle" /\ out'.status = StatusUnprocessableEntity
      /\ (pc[h] \in {"keys", "getview", "getclick"} /\ pc'[h] = "idle"
            /\ out'.status # StatusOK)
           => FailedIn(h, "keys")
      /\ FailedIn(h, "getview")
           => /\ resp'[h] = resp[h]
              /\ pc'[h] = "getview"
              /\ i'[h] = i[h] + 1
      /\ FailedIn(h, "getclick")
           => /\ resp'[h] = Append(resp[h],
                                   [Url |-> keys[h][i[h]], View |-> v[h],
                                    Click |-> 0, CTR |-> Zero])
              /\ pc'[h] = "getview"
              /\ i'[h] = i[h] + 1

Omitted(report) ==
    {k \in KeySet(NS("view", report.referer)) :
        \A e \in Entries(report.body) : e.Url # k}

PartialReport ==
    (out.route = "stat" /\ out.status = StatusOK)
        => Cardinality(Omitted(out)) <= faults

PartialResultTolerance == []PartialReport /\ [][PartialSteps]_vars

ReportedBesideFailedFetch ==
    /\ out.route = "stat"
    /\ out.status = StatusOK
    /\ faults = 1
    /\ Len(out.body) = 1
    /\ Cardinality(Omitted(out)) = 1

\* C15: a value the Stat handler reads for a pair never exceeds the number
\* of increments of that pair that had returned success when it was read.
ReadsView(h) == pc[h] = "getview" /\ pc'[h] = "getclick"

ReadsClick(h) == pc[h] = "getclick" /\ pc'[h] = "getview" /\ faults' = faults

NoDirtyReads ==
    [][\A h \in Procs :
         /\ ReadsView(h)
              => v'[h] <= okRet[NS("view", hit[h].referer)][keys[h][i[h]]]
         /\ ReadsClick(h)
              => resp'[h][Len(resp'[h])].Click
                   <= okRet[NS("click", hit[h].referer)][keys[h][i[h]]]]_vars

\* C16: the value of every pair is 0 until sp.Counter is called for it and
\* never above the number of calls, no step
\* (registration, report, CloseAll, stop or start of the process) lowers
\* it, a step raises it by at most one for each increment it completes,
\* and a key listed in a namespace stays listed.
Completing(ns, k) ==
    {h \in Procs : /\ pc[h] = "counter"
                   /\ pc'[h] = "committed"
                   /\ ret'[h] = "nil"
                   /\ CounterNS(h) = ns
                   /\ CounterKey(h) = k}

MonotonicStep ==
    \/ disk' = disk /\ mem' = mem /\ \A h \in Procs : pc'[h] = pc[h]
    \/ \A ns \in Namespaces :
         /\ KeySet(ns) \subseteq KeySet(ns)'
         /\ \A k \in Urls :
              /\ Value(ns, k)' = Value(ns, k) + Cardinality(Completing(ns, k))
              /\ Cardinality(Completing(ns, k)) <= 1

CountsCalls ==
    \A ns \in Namespaces : \A k \in Urls :
      /\ Value(ns, k) >= 0
      /\ Value(ns, k) <= issued[ns][k]

MonotonicCounters == []CountsCalls /\ [][MonotonicStep]_vars

CountedAcrossRestart ==
    /\ restarts = 1
    /\ mainpc = "serving"
    /\ \E ns \in Namespaces : \E k \in Urls : Value(ns, k) = 2

\* C17: a view or click registration whose URL list is empty is answered
\* with 422 and never with 200.
AnswersRegistration(h) ==
    pc[h] \in {"bind", "loop"} /\ pc'[h] = "idle" /\ mainpc' = mainpc

EmptyListRejected ==
    [][\A h \in Procs :
         (AnswersRegistration(h) /\ hit[h].urls.elems = <<>>)
            => out'.status = StatusUnprocessableEntity]_vars

\* C18: a step that answers a registration with 422 changes no value and
\* no key set, and every step that changes a value is the increment of a
\* view or click request whose referer passed the binding and whose URL
\* list is not nil, changing the pair of that request only.
Changed ==
    IF disk' = disk /\ mem' = mem THEN {}
    ELSE {p \in Pairs : Value(p[1], p[2])' # Value(p[1], p[2])}

Validated(h) ==
    /\ hit[h].route \in {"view", "click"}
    /\ ValidReferer(hit[h].referer)
    /\ ~hit[h].urls.isNil
    /\ i[h] \in 1..Len(hit[h].urls.elems)

RejectedChangesNothing ==
    [][/\ \A h \in Procs :
            (AnswersRegistration(h) /\ out'.status = StatusUnprocessableEntity)
               => Changed = {}
       /\ Changed # {}
            => \E h \in Procs :
                 /\ pc[h] = "counter"
                 /\ pc'[h] = "committed"
                 /\ Validated(h)
                 /\ Changed = {<<NS(hit[h].route, hit[h].referer),
                                 hit[h].urls.elems[i[h]]>>}]_vars

RejectedBesideCounted ==
    /\ out.status = StatusUnprocessableEntity
    /\ out.route \in {"view", "click"}
    /\ out.referer = RefBad
    /\ \E p \in Pairs : Value(p[1], p[2]) >= 1
    /\ AllIdle

\* C19: no step of a Stat request changes a value or a key set of any
\* namespace, and a report answered after a report of the same referer,
\* with no registration between the two and no storage failure, has the
\* same body.
StatStep(h) ==
    /\ hit[h].route = "stat"
    /\ pc[h] \in {"keys", "getview", "getclick"}
    /\ <<pc[h], i[h]>>' # <<pc[h], i[h]>>

ReportsAgain(h) ==
    /\ StatStep(h)
    /\ pc'[h] = "idle"
    /\ faults' = 0
    /\ out.route = "stat"
    /\ out.status = StatusOK
    /\ out.referer = hit[h].referer

ClickWord == <<99, 108, 105, 99, 107>>

ViewWord == <<118, 105, 101, 119>>

SomeReferers == Referers \cup {ClickWord, ViewWord, ClickWord \o ViewWord, <<>>}

Increments(h) == pc[h] = "counter" /\ pc'[h] = "committed"

NamesApart ==
    \A r1 \in SomeReferers : \A r2 \in SomeReferers :
      ViewPrefix \o r1 # ClickPrefix \o r2

SeparateSteps ==
    \A h \in Procs :
      /\ (Increments(h) /\ hit[h].route = "view")
           => \A p \in Changed :
                /\ p[1] = ViewPrefix \o hit[h].referer
                /\ \A r \in SomeReferers : p[1] # ClickPrefix \o r
      /\ (Increments(h) /\ hit[h].route = "click")
           => \A p \in Changed :
                /\ p[1] = ClickPrefix \o hit[h].referer
                /\ \A r \in SomeReferers : p[1] # ViewPrefix \o r

MetricSeparation == []NamesApart /\ [][SeparateSteps]_vars

ClickedBesideViewed ==
    \E h \in Procs :
      /\ pc[h] = "committed"
      /\ ret[h] = "nil"
      /\ hit[h].route = "click"
      /\ Value(ViewPrefix \o hit[h].referer, hit[h].urls.elems[i[h]]) = 1
      /\ Value(ClickPrefix \o hit[h].referer, hit[h].urls.elems[i[h]]) = 1

====
